---- MODULE Spec2Model ----
(***************************************************************************)
(* createI18nextIntegration (packages/i18next/src/integration.ts): the     *)
(* lifecycle of the i18next instance held by $instance, the listeners the  *)
(* integration registers on it, and the stores derived from it.            *)
(*                                                                         *)
(* One action is one synchronous effector propagation: everything a        *)
(* trigger reaches through sample/combine/attach without crossing an       *)
(* await.  The only asynchronous boundary is the async handler of          *)
(* initInstanceFx (its promise settles in a later task), so a call of it   *)
(* is split into its synchronous part, the resolution of init(), and the   *)
(* settlement of the effect (doneData).                                    *)
(***************************************************************************)
EXTENDS Integers, FiniteSets, Sequences, TLC

VARIABLES
    instance,               \* $instance: the current i18n instance or Null
    isInitialized,          \* i18next.isInitialized of every instance
    onMissingKey,           \* per instance: handlers registered by on('missingKey')
    onLanguageChanged,      \* per instance: handlers registered by on('languageChanged')
    onAdded,                \* per instance: handlers registered by store.on('added')
    derivedT,               \* $derivedT
    stanaloneT,             \* $stanaloneT
    t,                      \* $t
    isReady,                \* $isReady
    contextChangeListener,  \* $contextChangeListener
    missingKeyListener,     \* $missingKeyListener
    pending,                \* calls of initInstanceFx that have not settled
    last,                   \* what the most recent operation did (observation log)
    cycle,                  \* how far a setup/teardown/setup cycle has come (observation)
    literalParts,           \* translated`...`: the literal parts
    literalStores,          \* translated`...`: the values of the interpolated stores
    literalValue,           \* translated`...`: the value of the store returned
    variablesKey,           \* translated(key, variables): the key
    variablesStores,        \* translated(key, variables): <<name, value of its store>>
    variablesValue          \* translated(key, variables): the value of the store returned

\* the lifecycle: the engine, the stores of the integration, the calls in flight
lifecycle == <<instance, isInitialized, onMissingKey, onLanguageChanged, onAdded,
               derivedT, stanaloneT, isReady, contextChangeListener,
               missingKeyListener, pending>>

\* what the caller gives to translated
inputs == <<literalParts, literalStores, variablesKey, variablesStores>>

vars == <<instance, isInitialized, onMissingKey, onLanguageChanged, onAdded,
          derivedT, stanaloneT, t, isReady, contextChangeListener,
          missingKeyListener, pending, last, cycle, literalParts, literalStores,
          literalValue, variablesKey, variablesStores, variablesValue>>

----------------------------------------------------------------------------
(* Bounds *)

\* handler closures (listeners) that may exist at the same time
MaxHandlers == 3
\* calls of initInstanceFx that may be in flight at the same time
MaxPending == 2
\* literal parts of a template given to translated
MaxParts == 2
\* variables given to translated(key, variables)
MaxVariables == 1

----------------------------------------------------------------------------
(* Values *)

Null == "null"
Inst == {"A", "B"}
Handlers == 1..MaxHandlers
NoHandler == 0

\* A TFunction value: null, identity, or i18next.t.bind(i18next)
NoT == [kind |-> "null", this |-> Null]
IdentityT == [kind |-> "identity", this |-> Null]
bind(i18next) == [kind |-> "t", this |-> i18next]

\* identity that loses the key
identity_Empty(key) == ""

\* const identity = ((key) => key)
identity(key) == key

\* i18next.t(key, variables) of the engine: the translation the instance gives
RECURSIVE RenderVariables(_)
RenderVariables(variables) ==
    IF variables = <<>> THEN ""
    ELSE "," \o Head(variables)[1] \o "=" \o Head(variables)[2]
             \o RenderVariables(Tail(variables))

EngineT(i18next, key, variables) ==
    i18next \o ".t(" \o key \o RenderVariables(variables) \o ")"

\* calling a TFunction value
CallT(f, key, variables) ==
    IF f.kind = "identity" THEN identity(key) ELSE EngineT(f.this, key, variables)

\* $derivedT = $instance.map(i18next => i18next ? i18next.t.bind(i18next) : null)
DerivedT(i18next) == IF i18next # Null THEN bind(i18next) ELSE NoT

\* standalone ?? identity: the derived function is skipped
PublicT_NoDerived(derived, standalone) ==
    IF standalone # NoT THEN standalone ELSE IdentityT

\* $t = combine(..., ({derived, standalone}) => standalone ?? derived ?? identity)
PublicT(derived, standalone) ==
    IF standalone # NoT THEN standalone
    ELSE IF derived # NoT THEN derived
    ELSE IdentityT

\* the lookup key without "?? ''": a missing value is rendered as JavaScript
\* renders undefined
RECURSIVE FinalKey_Undefined(_, _, _)
FinalKey_Undefined(parts, dynamicParts, i) ==
    IF i > Len(parts) THEN ""
    ELSE parts[i]
         \o (IF i <= Len(dynamicParts) THEN dynamicParts[i] ELSE "undefined")
         \o FinalKey_Undefined(parts, dynamicParts, i + 1)

\* translatedLiteral(parts, ...stores): the lookup key
RECURSIVE FinalKey(_, _, _)
FinalKey(parts, dynamicParts, i) ==
    IF i > Len(parts) THEN ""
    ELSE parts[i]
         \o (IF i <= Len(dynamicParts) THEN dynamicParts[i] ELSE "")
         \o FinalKey(parts, dynamicParts, i + 1)

\* translatedLiteral(parts, ...stores): the value of the combined store
translatedLiteral(parts, dynamicParts) == CallT(t, FinalKey(parts, dynamicParts, 1), <<>>)

\* translated(key, variables) that calls t(key) and drops the variables
translatedWithVariables_NoVariables(key, variables) == CallT(t, key, <<>>)

\* translatedWithVariables(key, variables): the value of the combined store
translatedWithVariables(key, variables) == CallT(t, key, variables)

----------------------------------------------------------------------------
(* Listener bookkeeping *)

\* handler closures that are referenced somewhere
UsedHandlers ==
    UNION {onMissingKey[i] \cup onLanguageChanged[i] \cup onAdded[i] : i \in Inst}
    \cup ({contextChangeListener, missingKeyListener} \ {NoHandler})
    \cup ({c.missingKeyListener : c \in pending} \ {NoHandler})

FreeHandlers == Handlers \ UsedHandlers
NewHandler == CHOOSE h \in FreeHandlers : \A g \in FreeHandlers : h <= g

\* every registration this integration holds on an engine: <<instance, event, handler>>
Registrations ==
    UNION {   {<<i, "missingKey", h>> : h \in onMissingKey[i]}
         \cup {<<i, "languageChanged", h>> : h \in onLanguageChanged[i]}
         \cup {<<i, "added", h>> : h \in onAdded[i]} : i \in Inst}

\* the observation log: the operation, the engine it ran on, for a settled call
\* of initInstanceFx the clock that had started it and whether it had called
\* init() ("invoked") or not ("skipped"), the reports published on
\* reporting.missingKey, and the off() calls made
Log(op, i18next, clock, init, reports, offs) ==
    [op |-> op, i18next |-> i18next, clock |-> clock, init |-> init,
     reports |-> reports, offs |-> offs]

----------------------------------------------------------------------------
(* initInstanceFx: the synchronous part of the handler, up to the await *)

\* init() is called whatever isInitialized says
CallsInit_Always(i18next) == TRUE

\* init() is never called nor awaited
CallsInit_Never(i18next) == FALSE

\* does the handler call init() ?  (if (i18next.isInitialized) return ...)
CallsInit(i18next) == ~isInitialized[i18next]

\* initInstanceFx without the null check: init() is called on null as well
InitInstanceCall_NullInit(clock, i18next) ==
    [nth |-> Cardinality(pending) + 1,
     clock |-> clock,
     phase |-> IF i18next # Null /\ CallsInit(i18next) THEN "awaitInit" ELSE "settling",
     i18next |-> i18next,
     missingKeyListener |-> IF i18next = Null THEN NoHandler ELSE NewHandler,
     init |-> IF i18next = Null \/ CallsInit(i18next) THEN "invoked" ELSE "skipped"]

\* one run of the handler of initInstanceFx on i18next: the clock that started
\* it, the engine, the missingKeyListener it registered, whether it called
\* init(), and whether it awaits init() or has its result and is about to
\* settle; nth tells it from the runs in flight that are equal in all of these:
\* it is the nth oldest of them (every run is a call of its own, with its own
\* settlement; only runs on null can be equal, a run on an engine has a
\* missingKeyListener of its own)
HandlerRun(nth, clock, i18next) ==
    IF i18next = Null
    THEN [nth |-> nth, clock |-> clock, phase |-> "settling", i18next |-> Null,
          missingKeyListener |-> NoHandler, init |-> "none"]
    ELSE [nth |-> nth, clock |-> clock,
          phase |-> IF CallsInit(i18next) THEN "awaitInit" ELSE "settling",
          i18next |-> i18next,
          missingKeyListener |-> NewHandler,
          init |-> IF CallsInit(i18next) THEN "invoked" ELSE "skipped"]

\* the call left in flight by initInstanceFx run on i18next, beside the calls
\* already in flight
InitInstanceCall(clock, i18next) ==
    HandlerRun(CHOOSE n \in 1..(Cardinality(pending) + 1) :
                   /\ HandlerRun(n, clock, i18next) \notin pending
                   /\ \A m \in 1..(n - 1) : HandlerRun(m, clock, i18next) \in pending,
               clock, i18next)

\* the listeners of 'missingKey' after initInstanceFx ran on i18next
InitInstanceOn(i18next) ==
    IF i18next = Null THEN onMissingKey
    ELSE [onMissingKey EXCEPT ![i18next] = @ \cup {NewHandler}]

\* initInstanceFx can run within the bounds
CanCall(i18next) ==
    /\ Cardinality(pending) < MaxPending
    /\ i18next # Null => FreeHandlers # {}

----------------------------------------------------------------------------
\* the engine and the stores right after createI18nextIntegration returned
InitLifecycle ==
    /\ instance \in Inst \cup {Null}
    /\ isInitialized \in [Inst -> BOOLEAN]
    /\ onMissingKey = [i \in Inst |-> {}]
    /\ onLanguageChanged = [i \in Inst |-> {}]
    /\ onAdded = [i \in Inst |-> {}]
    /\ derivedT = DerivedT(instance)
    /\ stanaloneT = NoT
    /\ t = PublicT(derivedT, stanaloneT)
    /\ isReady = FALSE
    /\ contextChangeListener = NoHandler
    /\ missingKeyListener = NoHandler
    /\ pending = {}
    /\ last = Log("create", Null, "none", "none", 0, {})
    /\ cycle = "created"

\* the stores translated returns hold the value their combine computes
InitTranslated ==
    /\ literalValue = translatedLiteral(literalParts, literalStores)
    /\ variablesValue = translatedWithVariables(variablesKey, variablesStores)

\* the lifecycle, observed through translated`x` and translated("x")
Init ==
    /\ InitLifecycle
    /\ literalParts = <<"x">>
    /\ literalStores = <<>>
    /\ variablesKey = "x"
    /\ variablesStores = <<>>
    /\ InitTranslated

\* setup fires: sample({ clock: [setup, $instance.updates], target: initInstanceFx })
Setup ==
    /\ CanCall(instance)
    /\ pending' = pending \cup {InitInstanceCall("setup", instance)}
    /\ onMissingKey' = InitInstanceOn(instance)
    /\ last' = Log("setup", instance, "none", "none", 0, {})
    /\ UNCHANGED <<instance, isInitialized, onLanguageChanged, onAdded, derivedT,
                   stanaloneT, t, isReady, contextChangeListener, missingKeyListener>>

\* the caller's store $instance changes to v: $derivedT and $t follow, and
\* $instance.updates runs initInstanceFx on the new value
InstanceUpdate(v) ==
    /\ v # instance
    /\ CanCall(v)
    /\ instance' = v
    /\ derivedT' = DerivedT(v)
    /\ t' = PublicT(DerivedT(v), stanaloneT)
    /\ pending' = pending \cup {InitInstanceCall("updates", v)}
    /\ onMissingKey' = InitInstanceOn(v)
    /\ last' = Log("instance", v, "none", "none", 0, {})
    /\ UNCHANGED <<isInitialized, onLanguageChanged, onAdded, stanaloneT, isReady,
                   contextChangeListener, missingKeyListener>>

\* the engine resolves the init() awaited by call c
InitResolved(c) ==
    /\ c.phase = "awaitInit"
    /\ isInitialized' = [isInitialized EXCEPT ![c.i18next] = TRUE]
    /\ pending' = (pending \ {c}) \cup {[c EXCEPT !.phase = "settling"]}
    /\ last' = Log("initResolved", c.i18next, "none", "none", 0, {})
    /\ UNCHANGED <<instance, onMissingKey, onLanguageChanged, onAdded, derivedT,
                   stanaloneT, t, isReady, contextChangeListener, missingKeyListener>>

\* a failed call that is treated as a completed one: readiness is set
InitRejected_Ready(c) ==
    /\ c.phase = "awaitInit"
    /\ pending' = pending \ {c}
    /\ isReady' = TRUE
    /\ last' = Log("initRejected", c.i18next, "none", "none", 0, {})
    /\ UNCHANGED <<instance, isInitialized, onMissingKey, onLanguageChanged, onAdded,
                   derivedT, stanaloneT, t, contextChangeListener,
                   missingKeyListener>>

\* the engine rejects the init() awaited by call c: initInstanceFx fails, and
\* nothing is wired to its failure
InitRejected(c) ==
    /\ c.phase = "awaitInit"
    /\ pending' = pending \ {c}
    /\ last' = Log("initRejected", c.i18next, "none", "none", 0, {})
    /\ UNCHANGED <<instance, isInitialized, onMissingKey, onLanguageChanged, onAdded,
                   derivedT, stanaloneT, t, isReady, contextChangeListener,
                   missingKeyListener>>

\* the calls left in flight when call c has settled: of the calls equal to c,
\* each is one place older
Settled(c) ==
    {IF [d EXCEPT !.nth = c.nth] = c THEN [d EXCEPT !.nth = @ - 1] ELSE d :
        d \in pending \ {c}}

\* initInstanceFx.doneData of call c with result null: filter Boolean stops it;
\* of equal calls the oldest settles first (their handlers returned in that order)
DoneNull(c) ==
    /\ c.phase = "settling"
    /\ c.i18next = Null
    /\ c.nth = 1
    /\ pending' = Settled(c)
    /\ last' = Log("done", Null, c.clock, c.init, 0, {})
    /\ UNCHANGED <<instance, isInitialized, onMissingKey, onLanguageChanged, onAdded,
                   derivedT, stanaloneT, t, isReady, contextChangeListener,
                   missingKeyListener>>

\* the value instanceInitialized(i18next) writes to $stanaloneT
InitializedT(i18next) == bind(i18next)

\* the value instanceInitialized writes to $isReady
InitializedReady == TRUE

\* initInstanceFx.doneData of call c with { i18next, missingKeyListener }:
\* instanceInitialized -> $stanaloneT, $isReady; setupListenersFx(i18next) and its
\* doneData -> $contextChangeListener; missingKeyListener -> $missingKeyListener
Done(c) ==
    /\ c.phase = "settling"
    /\ c.i18next # Null
    /\ FreeHandlers # {}
    /\ stanaloneT' = InitializedT(c.i18next)
    /\ t' = PublicT(derivedT, InitializedT(c.i18next))
    /\ isReady' = InitializedReady
    /\ onLanguageChanged' = [onLanguageChanged EXCEPT ![c.i18next] = @ \cup {NewHandler}]
    /\ onAdded' = [onAdded EXCEPT ![c.i18next] = @ \cup {NewHandler}]
    /\ contextChangeListener' = NewHandler
    /\ missingKeyListener' = c.missingKeyListener
    /\ pending' = pending \ {c}
    /\ last' = Log("done", c.i18next, c.clock, c.init, 0, {})
    /\ UNCHANGED <<instance, isInitialized, onMissingKey, derivedT>>

\* a context change that never rebinds
ContextChangedT_Keep(i18next, standalone) == standalone

\* the value a context change writes to $stanaloneT:
\* sample({ clock: contextChanged, source: $instance, filter: Boolean })
ContextChangedT(i18next, standalone) ==
    IF i18next # Null THEN bind(i18next) ELSE standalone

\* the engine x emits 'languageChanged' / its store emits 'added': every
\* contextChangeListener registered on x fires contextChanged
ContextChanged(x, event) ==
    /\ IF event = "languageChanged" THEN onLanguageChanged[x] # {} ELSE onAdded[x] # {}
    /\ stanaloneT' = ContextChangedT(instance, stanaloneT)
    /\ t' = PublicT(derivedT, ContextChangedT(instance, stanaloneT))
    /\ last' = Log("contextChanged", x, "none", "none", 0, {})
    /\ UNCHANGED <<instance, isInitialized, onMissingKey, onLanguageChanged, onAdded,
                   derivedT, isReady, contextChangeListener, missingKeyListener, pending>>

\* destroyListenersFx that detaches the context-change listener only
DestroyOffs_ContextOnly(contextListener, missingListener, i18next) ==
    IF i18next = Null \/ contextListener = NoHandler THEN {}
    ELSE {<<i18next, "languageChanged", contextListener>>,
          <<i18next, "added", contextListener>>}

\* the off() calls of destroyListenersFx: <<instance, event, handler>>
DestroyOffs(contextListener, missingListener, i18next) ==
    IF i18next = Null THEN {}
    ELSE (IF contextListener # NoHandler
          THEN {<<i18next, "languageChanged", contextListener>>,
                <<i18next, "added", contextListener>>}
          ELSE {})
         \cup
         (IF missingListener # NoHandler
          THEN {<<i18next, "missingKey", missingListener>>}
          ELSE {})

\* the registry of an event after the off() calls offs
Off(registry, event, offs) ==
    [i \in Inst |-> registry[i] \ {h \in Handlers : <<i, event, h>> \in offs}]

\* the value teardown leaves in $stanaloneT (no sample targets it on destroy)
TeardownT(standalone) == standalone

\* the value teardown writes to $isReady
TeardownReady == FALSE

\* the value destroyListenersFx.done leaves in a listener cell (reinit)
ReinitListener(listener) == NoHandler

\* teardown fires: $isReady <- false; destroyListenersFx; on done both cells reinit
Teardown ==
    /\ isReady' = TeardownReady
    /\ onLanguageChanged' =
           Off(onLanguageChanged, "languageChanged",
               DestroyOffs(contextChangeListener, missingKeyListener, instance))
    /\ onAdded' =
           Off(onAdded, "added",
               DestroyOffs(contextChangeListener, missingKeyListener, instance))
    /\ onMissingKey' =
           Off(onMissingKey, "missingKey",
               DestroyOffs(contextChangeListener, missingKeyListener, instance))
    /\ contextChangeListener' = ReinitListener(contextChangeListener)
    /\ missingKeyListener' = ReinitListener(missingKeyListener)
    /\ stanaloneT' = TeardownT(stanaloneT)
    /\ t' = PublicT(derivedT, TeardownT(stanaloneT))
    /\ last' = Log("teardown", instance, "none", "none", 0,
                   DestroyOffs(contextChangeListener, missingKeyListener, instance))
    /\ UNCHANGED <<instance, isInitialized, derivedT, pending>>

\* the reports one native 'missingKey' of engine x publishes: every registered
\* missingKeyListener calls boundMissingKey once
Reports(x) == Cardinality(onMissingKey[x])

\* the engine x emits 'missingKey'
MissingKey(x) ==
    /\ last' = Log("missingKey", x, "none", "none", Reports(x), {})
    /\ UNCHANGED <<instance, isInitialized, onMissingKey, onLanguageChanged, onAdded,
                   derivedT, stanaloneT, t, isReady, contextChangeListener,
                   missingKeyListener, pending>>

\* combine recomputes the stores translated returned from the new $t and the
\* new values of the stores given to it
Recompute ==
    /\ literalValue' = translatedLiteral(literalParts, literalStores)'
    /\ variablesValue' = translatedWithVariables(variablesKey, variablesStores)'

\* observation: how far the run has come through the cycle setup, call settled,
\* teardown, setup, call settled, on an instance that is never changed; "off" as
\* soon as the run is not that cycle.  Native events of the engine and the
\* resolution of init() do not count.
CycleAfter(at, op, i18next) ==
    IF op \in {"missingKey", "contextChanged", "initResolved"} THEN at
    ELSE IF at = "created" /\ op = "setup" /\ i18next # Null THEN "setup"
    ELSE IF at = "setup" /\ op = "done" THEN "ready"
    ELSE IF at = "ready" /\ op = "teardown" THEN "tornDown"
    ELSE IF at = "tornDown" /\ op = "setup" THEN "setupAgain"
    ELSE IF at = "setupAgain" /\ op = "done" THEN "readyAgain"
    ELSE "off"

\* one propagation of the lifecycle: the operation A, and what follows from it
Lifecycle(A) ==
    /\ A
    /\ cycle' = CycleAfter(cycle, last'.op, last'.i18next)
    /\ UNCHANGED inputs
    /\ Recompute

Next ==
    \/ Lifecycle(Setup)
    \/ \E v \in Inst \cup {Null} : Lifecycle(InstanceUpdate(v))
    \/ \E c \in pending : Lifecycle(InitResolved(c))
    \/ \E c \in pending : Lifecycle(InitRejected(c))
    \/ \E c \in pending : Lifecycle(DoneNull(c))
    \/ \E c \in pending : Lifecycle(Done(c))
    \/ \E x \in Inst : \E event \in {"languageChanged", "added"} :
           Lifecycle(ContextChanged(x, event))
    \/ Lifecycle(Teardown)
    \/ \E x \in Inst : Lifecycle(MissingKey(x))

Spec == Init /\ [][Next]_vars

----------------------------------------------------------------------------
(* translated, for any arguments, while $t changes *)

\* the strings a caller gives: literal parts, store values, keys, variable names
PartStrings == <<"Hello, ", "!", "?">>
ValueStrings == {"World", "Team"}
KeyStrings == {"greeting", "farewell"}
VariableNames == {"name", "lang"}

\* sequences over S of length lo..hi
SeqsOf(S, lo, hi) == UNION {[1..n -> S] : n \in lo..hi}

\* parts: TemplateStringsArray (at least one part)
PartsInputs == {SubSeq(PartStrings, 1, n) : n \in 1..MaxParts}

\* ...stores: Array<Store<string>>, by their current values
StoresInputs == SeqsOf(ValueStrings, 0, MaxParts)

\* variables?: Record<string, Store<string>>, as <<name, current value>> in the
\* order of the keys; a record has no key twice
VariablesInputs ==
    {v \in SeqsOf(VariableNames \X ValueStrings, 0, MaxVariables) :
        \A i, j \in DOMAIN v : v[i][1] = v[j][1] => i = j}

\* right after createI18nextIntegration, the caller has called translated`...`
\* with any parts and stores (and translated("x")), or translated(key, variables)
\* with any key and variables (and translated`x`)
InitT ==
    /\ InitLifecycle
    /\ \/ /\ literalParts \in PartsInputs
          /\ literalStores \in StoresInputs
          /\ variablesKey = "x"
          /\ variablesStores = <<>>
       \/ /\ literalParts = <<"x">>
          /\ literalStores = <<>>
          /\ variablesKey \in KeyStrings
          /\ variablesStores \in VariablesInputs
    /\ InitTranslated

\* the i-th interpolated store changes to v: combine(stores) and the combine of
\* translatedLiteral recompute
StoreChanged(i, v) ==
    /\ i \in DOMAIN literalStores
    /\ v # literalStores[i]
    /\ literalStores' = [literalStores EXCEPT ![i] = v]
    /\ last' = Log("storeChanged", instance, "none", "none", 0, {})
    /\ UNCHANGED <<lifecycle, t, cycle, literalParts, variablesKey, variablesStores>>
    /\ Recompute

\* the store of the i-th variable changes to v: combine(variables) and the
\* combine of translatedWithVariables recompute
VariableChanged(i, v) ==
    /\ i \in DOMAIN variablesStores
    /\ v # variablesStores[i][2]
    /\ variablesStores' = [variablesStores EXCEPT ![i] = <<@[1], v>>]
    /\ last' = Log("variableChanged", instance, "none", "none", 0, {})
    /\ UNCHANGED <<lifecycle, t, cycle, literalParts, literalStores, variablesKey>>
    /\ Recompute

\* the stores given to translated change, and $t changes in the three ways it
\* can: $instance changes, a call of initInstanceFx settles, the context of an
\* engine changes.  The caller fires neither setup nor teardown, and no init()
\* rejects.
NextT ==
    \/ \E i \in 1..MaxParts : \E v \in ValueStrings : StoreChanged(i, v)
    \/ \E i \in 1..MaxVariables : \E v \in ValueStrings : VariableChanged(i, v)
    \/ \E v \in Inst \cup {Null} : Lifecycle(InstanceUpdate(v))
    \/ \E c \in pending : Lifecycle(InitResolved(c))
    \/ \E c \in pending : Lifecycle(DoneNull(c))
    \/ \E c \in pending : Lifecycle(Done(c))
    \/ \E x \in Inst : \E event \in {"languageChanged", "added"} :
           Lifecycle(ContextChanged(x, event))

SpecT == InitT /\ [][NextT]_vars

----------------------------------------------------------------------------
(* The claims *)

\* C1: in every reachable state the public translate-function $t is defined
\* (not null) and is standalone_t if that is non-null, else derived_t if that is
\* non-null, else identity.
C1_PublicTDefined ==
    /\ t # NoT
    /\ t = (IF stanaloneT # NoT THEN stanaloneT
            ELSE IF derivedT # NoT THEN derivedT
            ELSE IdentityT)
    /\ derivedT = (IF instance # Null THEN bind(instance) ELSE NoT)

\* C1 witness: after a teardown, $instance holds an engine, no standalone
\* function is bound, and $t is the function derived from the engine.
C1_Witness ==
    /\ last.op = "teardown"
    /\ instance # Null
    /\ stanaloneT = NoT
    /\ t = bind(instance)

\* C2 as stated: in every state in which an init() called by a setup is pending,
\* readiness is false.
C2_Claim ==
    \A c \in pending : (c.clock = "setup" /\ c.phase = "awaitInit") => ~isReady

\* C2 amended: readiness turns from false to true only in the step in which a
\* call of initInstanceFx settles with an engine whose init() has completed
\* (isInitialized is true); so while init() is pending readiness stays as it was
\* unless another call settles.
C2_ReadyOnlyAfterInit ==
    [][(~isReady /\ isReady')
          => \E c \in pending :
                /\ c \notin pending'
                /\ c.phase = "settling"
                /\ c.i18next # Null
                /\ isInitialized[c.i18next]]_vars

\* C2 witness: a call started by setup that had called init() has settled, and
\* readiness is true.
C2_Witness ==
    /\ last.op = "done"
    /\ last.clock = "setup"
    /\ last.init = "invoked"
    /\ isReady

\* C3: a setup with a non-null instance whose isInitialized is true starts a call
\* that does not call init() (it goes straight to settling), and when that call
\* settles readiness is true.
C3_InitializedSkipsInit ==
    [][/\ (last'.op = "setup" /\ instance # Null /\ isInitialized[instance])
              => \A c \in pending' \ pending :
                    c.init = "skipped" /\ c.phase = "settling"
       /\ \A c \in pending \ pending' :
              (c.clock = "setup" /\ c.init = "skipped") => isReady'
       /\ \A c \in pending' : c.init = "skipped" => c.phase = "settling"]_vars

\* C3 witness: a call started by setup that skipped init() has settled, and
\* readiness is true.
C3_Witness ==
    /\ last.op = "done"
    /\ last.clock = "setup"
    /\ last.init = "skipped"
    /\ isReady

\* C4 as stated: a teardown fired while readiness is true sets readiness to
\* false and makes exactly one off() call for each registration attached before
\* it; a teardown that follows a teardown makes no off() call.
C4_Claim ==
    [][/\ (last'.op = "teardown" /\ isReady)
              => (~isReady' /\ last'.offs = Registrations)
       /\ (last.op = "teardown" /\ last'.op = "teardown")
              => last'.offs = {}]_vars

\* C5 as stated: a native missingKey emitted by an engine while an init() called
\* on it by a setup is pending is published as exactly one report.
C5_Claim ==
    (/\ last.op = "missingKey"
     /\ \E c \in pending :
            c.clock = "setup" /\ c.phase = "awaitInit" /\ c.i18next = last.i18next)
        => last.reports = 1

\* C6 as stated: a native missingKey of an engine that carries a listener of
\* this integration is published as exactly one report.
C6_Claim ==
    (last.op = "missingKey" /\ onMissingKey[last.i18next] # {})
        => last.reports = 1

\* C7: in the initial state, with $instance holding null, $t is identity,
\* translated("x") and translated`x` hold "x", and readiness is false.
C7_InitialIdentity ==
    (last.op = "create" /\ instance = Null)
        => /\ t = IdentityT
           /\ translatedWithVariables("x", <<>>) = "x"
           /\ translatedLiteral(<<"x">>, <<>>) = "x"
           /\ ~isReady

\* C7 witness: the initial state with $instance holding null, where the
\* template form gives the key back.
C7_Witness ==
    /\ last.op = "create"
    /\ instance = Null
    /\ translatedLiteral(<<"x">>, <<>>) = "x"

\* C8 as stated: whenever $instance holds null, $t is identity and readiness is
\* false.
C8_Claim ==
    instance = Null => (t = IdentityT /\ ~isReady)

\* C9 as stated: $stanaloneT changes only when a call settles, a context change
\* fires or teardown fires, and after teardown it is null, so that $t is the
\* function derived from the current instance, or identity.
C9_Claim ==
    [][/\ stanaloneT' # stanaloneT
              => last'.op \in {"done", "contextChanged", "teardown"}
       /\ last'.op = "teardown"
              => /\ stanaloneT' = NoT
                 /\ t' = (IF instance' # Null THEN bind(instance') ELSE IdentityT)]_vars

\* C10 as stated: while an init() is pending, $t is the function bound to the
\* instance $instance holds, or identity if that is null.
C10_Claim ==
    (\E c \in pending : c.phase = "awaitInit")
        => t = (IF instance # Null THEN bind(instance) ELSE IdentityT)

\* C11: the step in which an init() rejects changes nothing: readiness, the
\* standalone function, the context-change listeners on every engine and both
\* listener cells are what they were, and no call is started by it; a call that
\* invokes init() is started only by a setup or by a change of $instance.
C11_RejectionChangesNothing ==
    [][/\ last'.op = "initRejected"
              => /\ isReady' = isReady
                 /\ stanaloneT' = stanaloneT
                 /\ t' = t
                 /\ onLanguageChanged' = onLanguageChanged
                 /\ onAdded' = onAdded
                 /\ contextChangeListener' = contextChangeListener
                 /\ missingKeyListener' = missingKeyListener
                 /\ isInitialized' = isInitialized
                 /\ pending' \subseteq pending
       /\ (\E c \in pending' \ pending : c.phase = "awaitInit")
              => last'.op \in {"setup", "instance"}]_vars

\* C11 witness: an init() has rejected; readiness is false, no standalone
\* function is bound, the engine carries no context-change listener and both
\* cells are null.
C11_Witness ==
    /\ last.op = "initRejected"
    /\ ~isReady
    /\ stanaloneT = NoT
    /\ onLanguageChanged[last.i18next] = {}
    /\ onAdded[last.i18next] = {}
    /\ contextChangeListener = NoHandler
    /\ missingKeyListener = NoHandler
    /\ pending = {}

\* the key of C12 for the first n parts: part[1] + value[1] + ... + part[n] +
\* value[n], where a position without a store contributes the empty string
RECURSIVE C12_Key(_)
C12_Key(n) ==
    IF n = 0 THEN ""
    ELSE C12_Key(n - 1) \o literalParts[n]
         \o (IF n \in DOMAIN literalStores THEN literalStores[n] ELSE "")

\* C12: in every state, also after an interpolated store or $t has changed, the
\* value of translated`...` is $t applied to the concatenation of the parts with
\* the current values of the stores in position, a missing one giving "".
C12_TemplateValue ==
    literalValue = CallT(t, C12_Key(Len(literalParts)), <<>>)

\* C12 witness: the template Hello, ${store}! with a second position that has no
\* store; $t has become the function bound to B and then the store has changed
\* to Team: the value is that of B for the key Hello, Team!
C12_Witness ==
    /\ last.op = "storeChanged"
    /\ literalParts = <<"Hello, ", "!">>
    /\ literalStores = <<"Team">>
    /\ instance = Null
    /\ stanaloneT = bind("B")
    /\ literalValue = "B.t(Hello, Team!)"

\* C13: in every state, also after the store of a variable or $t has changed,
\* the value of translated(key, variables) is $t applied to the key and to the
\* variables with the current values of their stores: the key itself when $t is
\* identity, else what the engine $t is bound to gives for them.
C13_KeyValue ==
    variablesValue =
        (IF t = IdentityT THEN variablesKey
         ELSE EngineT(t.this, variablesKey, variablesStores))

\* C13 witness: translated("greeting", { name }) after $t has become the function
\* bound to A (while $instance holds B) and the store of name has changed to
\* Team: the value is that of A for greeting with name = Team.
C13_Witness ==
    /\ last.op = "variableChanged"
    /\ variablesKey = "greeting"
    /\ variablesStores = << <<"name", "Team">> >>
    /\ instance = "B"
    /\ stanaloneT = bind("A")
    /\ variablesValue = "A.t(greeting,name=Team)"

\* C14 as stated: every off() call a teardown makes is issued on the engine on
\* which the handle it passes was registered for that event.
C14_Claim ==
    [][last'.op = "teardown" => last'.offs \subseteq Registrations]_vars

\* C15: in a run that is the cycle setup, call settled, teardown, setup, call
\* settled on one engine: between the teardown and the second settlement both
\* cells are null and the engine carries no context-change listener and at most
\* the missingKey listener of the second setup; after the second settlement the
\* engine carries exactly one missingKey, one languageChanged and one added
\* listener, which are the ones the cells hold.
C15_CycleReattachesOnce ==
    /\ cycle \in {"tornDown", "setupAgain"}
           => /\ contextChangeListener = NoHandler
              /\ missingKeyListener = NoHandler
              /\ onLanguageChanged[instance] = {}
              /\ onAdded[instance] = {}
              /\ Cardinality(onMissingKey[instance])
                     = (IF cycle = "setupAgain" THEN 1 ELSE 0)
    /\ cycle = "readyAgain"
           => /\ onMissingKey[instance] = {missingKeyListener}
              /\ onLanguageChanged[instance] = {contextChangeListener}
              /\ onAdded[instance] = {contextChangeListener}
              /\ missingKeyListener # NoHandler
              /\ contextChangeListener # NoHandler

\* C15 witness: the cycle is complete: the second call has settled and the
\* engine carries one listener of each kind.
C15_Witness ==
    /\ cycle = "readyAgain"
    /\ instance # Null
    /\ Cardinality(onMissingKey[instance]) = 1
    /\ Cardinality(onLanguageChanged[instance]) = 1
    /\ isReady

\* C16: a context change fired while $instance holds an engine binds
\* $stanaloneT to the t of that engine, and the settlement of a call of
\* initInstanceFx on an engine binds it to the t of the engine of the call; in
\* both steps $t becomes that function and the translated values are what it
\* gives.  A context change fired while $instance holds null leaves $stanaloneT
\* as it was.
C16_Rebind ==
    [][/\ (last'.op = "contextChanged" /\ instance # Null)
              => /\ stanaloneT' = bind(instance)
                 /\ t' = bind(instance)
                 /\ literalValue' = EngineT(instance, FinalKey(literalParts, literalStores, 1), <<>>)
                 /\ variablesValue' = EngineT(instance, variablesKey, variablesStores)
       /\ (last'.op = "done" /\ last'.i18next # Null)
              => /\ stanaloneT' = bind(last'.i18next)
                 /\ t' = bind(last'.i18next)
                 /\ literalValue' = EngineT(last'.i18next, FinalKey(literalParts, literalStores, 1), <<>>)
                 /\ variablesValue' = EngineT(last'.i18next, variablesKey, variablesStores)
       /\ (last'.op = "contextChanged" /\ instance = Null)
              => stanaloneT' = stanaloneT]_vars

\* C16 witness: the context-change listener left on an engine fired while
\* $instance holds another engine whose call has not settled: $stanaloneT, $t
\* and the translated value are those of the engine $instance holds.
C16_Witness ==
    /\ last.op = "contextChanged"
    /\ instance # Null
    /\ last.i18next # instance
    /\ \E c \in pending : c.i18next = instance
    /\ stanaloneT = bind(instance)
    /\ t = bind(instance)
    /\ literalValue = EngineT(instance, "x", <<>>)

\* C17: a setup fired while $instance holds null, and a change of $instance to
\* null, start a call that registers no listener, does not call init() and has
\* the result null; neither that step nor the settlement of that call changes
\* a listener of any engine, readiness, $stanaloneT or a listener cell.
C17_NullStaysUnbound ==
    [][(\/ last'.op = "setup" /\ instance = Null
        \/ last'.op = "instance" /\ instance' = Null
        \/ last'.op = "done" /\ last'.i18next = Null)
          => /\ onMissingKey' = onMissingKey
             /\ onLanguageChanged' = onLanguageChanged
             /\ onAdded' = onAdded
             /\ isInitialized' = isInitialized
             /\ isReady' = isReady
             /\ stanaloneT' = stanaloneT
             /\ contextChangeListener' = contextChangeListener
             /\ missingKeyListener' = missingKeyListener
             /\ \A c \in pending' \ pending :
                    /\ last'.op # "done"
                    /\ c.i18next = Null
                    /\ c.init = "none"
                    /\ c.phase = "settling"
                    /\ c.missingKeyListener = NoHandler]_vars

\* C17 witness: the call a setup started while $instance held null has settled
\* with null: nothing is attached, readiness is false, no standalone function
\* is bound and both cells are null.
C17_Witness ==
    /\ last.op = "done"
    /\ last.i18next = Null
    /\ last.clock = "setup"
    /\ last.init = "none"
    /\ instance = Null
    /\ Registrations = {}
    /\ ~isReady
    /\ stanaloneT = NoT
    /\ contextChangeListener = NoHandler
    /\ missingKeyListener = NoHandler

\* C18 as stated, for the step that follows a teardown: unless that step is a
\* setup or a change of $instance, readiness is false after it, both cells are
\* null and no context-change listener has been attached or detached.
C18_Claim ==
    [][(last.op = "teardown" /\ last'.op \notin {"setup", "instance"})
          => /\ ~isReady'
             /\ contextChangeListener' = NoHandler
             /\ missingKeyListener' = NoHandler
             /\ onLanguageChanged' = onLanguageChanged
             /\ onAdded' = onAdded]_vars

\* C19 as stated: right after a teardown, with no call of initInstanceFx in
\* flight, no engine carries a listener registered by the integration.
C19_Claim ==
    (last.op = "teardown" /\ pending = {}) => Registrations = {}

\* C20 as stated: in every state with no call of initInstanceFx in flight and a
\* non-null $stanaloneT, $stanaloneT and $t are the function bound to the
\* engine $instance holds.
C20_Claim ==
    (pending = {} /\ stanaloneT # NoT)
        => /\ instance # Null
           /\ stanaloneT = bind(instance)
           /\ t = bind(instance)

====
